---- MODULE Spec2Model ----
(***************************************************************************)
(* BlockEditorProvider (src/unnamed/part_000): the controlled-value        *)
(* synchronisation between the host's `value` prop and the block-editor    *)
(* store.  A block tree is a JavaScript array: it has an identity (its     *)
(* reference) and elements.  References are the numbers 1..NumRefs; the    *)
(* elements of a reference never change (the store treats trees as         *)
(* immutable snapshots).                                                   *)
(*                                                                         *)
(* The store (registry.select / registry.subscribe / dispatch) is not part *)
(* of the source files; it is modelled from its interface contract: any    *)
(* dispatch changes the store state and then synchronously calls the       *)
(* subscribed listener.                                                    *)
(***************************************************************************)
EXTENDS Integers, Sequences, FiniteSets, TLC

\* ---------------------------------------------------------------- bounds
NumRefs == 2          \* block-tree references the host and the store can produce
MaxQueue == 2         \* longest outbound echo queue explored

Refs == 1..NumRefs
Null == 0             \* null / undefined (falsy); every block tree is truthy
Undefined == <<Null>> \* isSyncingOutcomingValue before componentDidMount assigns it

VARIABLES
    phase,                      \* "constructed" | "mounted" | "unmounted"
    props,                      \* this.props: value, and whether selectionStart and
                                \* selectionEnd are present (settings and registry
                                \* are only ever compared with their previous
                                \* identity, see ComponentDidUpdate)
    store,                      \* the core/block-editor store of props.registry
    isSyncingOutcomingValue,    \* this.isSyncingOutcomingValue
    isSyncingIncomingValue,     \* this.isSyncingIncomingValue
    unsubscribe,                \* this.unsubscribe: "unset" | "live" | "released"
    listeners,                  \* live store subscriptions created by this component
    blocks,                     \* closure variable of attachChangeObserver
    isPersistent,               \* closure variable of attachChangeObserver
    previousAreBlocksDifferent, \* closure variable of attachChangeObserver
    act,                        \* the handler that ran last
    runs,                       \* what each listener invocation of the last handler did
    calls                       \* the dispatches the last handler made

vars == <<phase, props, store, isSyncingOutcomingValue, isSyncingIncomingValue,
          unsubscribe, listeners, blocks, isPersistent,
          previousAreBlocksDifferent, act, runs, calls>>

\* ------------------------------------------------------------ block trees
\* The elements of the array a reference denotes: references 2k-1 and 2k hold
\* the same elements, so distinct references can be shallow-equal.
Elems(r) == [i \in 1..((r + 1) \div 2) |-> i]

\* @wordpress/is-shallow-equal on two arrays: same length, elements pairwise ===.
isShallowEqual(a, b) ==
    /\ Len(Elems(a)) = Len(Elems(b))
    /\ \A i \in 1..Len(Elems(a)) : Elems(a)[i] = Elems(b)[i]

\* Array.prototype.includes and lodash last.
Includes(q, v) == \E i \in 1..Len(q) : q[i] = v
Last(q) == IF Len(q) = 0 THEN Null ELSE q[Len(q)]

\* The store state the component reads across handlers: getBlocks(),
\* isLastBlockChangePersistent(), areAnyInnerBlocksControlled().
\* __unstableIsLastBlockChangeIgnored() describes the dispatch being notified
\* and is consulted only while that notification runs; it is an argument of
\* the listener.
StoreStates == [blocks : Refs, isPersistent : BOOLEAN, controlled : BOOLEAN]

\* ------------------------------------------------------- change observer
\* The handlers below thread a record c through their statements:
\*   c.store  the store state            c.out   isSyncingOutcomingValue
\*   c.inc    isSyncingIncomingValue     c.blocks, c.isPersistent, c.prev
\*   c.runs   the log of listener invocations    c.calls  the log of dispatches
\* (c.prev is previousAreBlocksDifferent.)

\* areBlocksDifferent: shallow comparison only when inner blocks are controlled.
\* Mutant of AreBlocksDifferent: the shallow comparison is used always.
AreBlocksDifferentAlwaysShallow(controlled, newBlocks, oldBlocks) ==
    ~isShallowEqual(newBlocks, oldBlocks)

AreBlocksDifferent(controlled, newBlocks, oldBlocks) ==
    IF controlled THEN ~isShallowEqual(newBlocks, oldBlocks)
    ELSE newBlocks # oldBlocks

\* The guard of the early return: the change comes from an inbound reset
\* (marker truthy) or the store flags it as ignored.
IsSuppressed(areBlocksDifferent, incoming, ignored) ==
    areBlocksDifferent /\ (incoming # Null \/ ignored)

\* previousAreBlocksDifferent after the early return: the return skips the
\* assignment at the end of the callback, so the old value stays.
PreviousAfterSuppressed(prev, areBlocksDifferent) == prev

\* Mutants of DidPersistenceChange: the test on the old flag inverted; the test
\* on the old flag dropped.
DidPersistenceChangeOldFlagInverted(prev, areDifferent, newPersistent, oldPersistent) ==
    prev /\ ~areDifferent /\ newPersistent /\ oldPersistent

DidPersistenceChangeOldFlagDropped(prev, areDifferent, newPersistent, oldPersistent) ==
    prev /\ ~areDifferent /\ newPersistent

DidPersistenceChange(prev, areBlocksDifferent, newIsPersistent, oldIsPersistent) ==
    prev /\ ~areBlocksDifferent /\ newIsPersistent /\ ~oldIsPersistent

\* The push onto isSyncingOutcomingValue, on the blocks-differ path only.
\* Mutant of PushOutcoming: every emitting notification pushes.
PushOutcomingAlways(q, areBlocksDifferent, newBlocks) == Append(q, newBlocks)

PushOutcoming(q, areBlocksDifferent, newBlocks) ==
    IF areBlocksDifferent THEN Append(q, newBlocks) ELSE q

\* Which callback receives the blocks, from the snapshot's isPersistent after
\* it has been set to newIsPersistent.
\* Mutant of EmitKind: every emission goes to onChange.
EmitKindAlwaysChange(persistent) == "onChange"

EmitKind(persistent) == IF persistent THEN "onChange" ELSE "onInput"

\* ignored notes that the blocks differ and the store flags the change as
\* ignored.
RunRecord(diff, branch, emit, arg, pushed, newP, ignored) ==
    [areBlocksDifferent |-> diff, branch |-> branch, emit |-> emit,
     arg |-> arg, pushed |-> pushed, newIsPersistent |-> newP,
     ignored |-> diff /\ ignored]

\* One invocation of the callback given to registry.subscribe; ignored is what
\* __unstableIsLastBlockChangeIgnored() returns during it.
Listener(c, ignored) ==
    LET newBlocks == c.store.blocks
        newIsPersistent == c.store.isPersistent
        areBlocksDifferent ==
            AreBlocksDifferent(c.store.controlled, newBlocks, c.blocks)
        didPersistenceChange ==
            DidPersistenceChange(c.prev, areBlocksDifferent, newIsPersistent,
                                 c.isPersistent)
    IN  IF IsSuppressed(areBlocksDifferent, c.inc, ignored)
        THEN [c EXCEPT !.inc = Null,
                       !.blocks = newBlocks,
                       !.isPersistent = newIsPersistent,
                       !.prev = PreviousAfterSuppressed(c.prev, areBlocksDifferent),
                       !.runs = Append(@, RunRecord(areBlocksDifferent, "suppressed",
                                                    "none", Null, FALSE, newIsPersistent,
                                                    ignored))]
        ELSE IF areBlocksDifferent \/ didPersistenceChange
        THEN [c EXCEPT !.out = PushOutcoming(@, areBlocksDifferent, newBlocks),
                       !.blocks = newBlocks,
                       !.isPersistent = newIsPersistent,
                       !.prev = areBlocksDifferent,
                       !.runs = Append(@, RunRecord(areBlocksDifferent, "emitted",
                                                    EmitKind(newIsPersistent), newBlocks,
                                                    Len(PushOutcoming(c.out, areBlocksDifferent, newBlocks)) > Len(c.out),
                                                    newIsPersistent, ignored))]
        ELSE [c EXCEPT !.prev = areBlocksDifferent,
                       !.runs = Append(@, RunRecord(areBlocksDifferent, "idle",
                                                    "none", Null, FALSE, newIsPersistent,
                                                    ignored))]

\* ------------------------------------------------------------------ store
\* The store's synchronous notification after a dispatch: the listener runs
\* when (and only when) a subscription of this component is live on the store
\* the dispatch went to.
Notify(c, heard, ignored) ==
    IF heard /\ c.listeners > 0 THEN Listener(c, ignored) ELSE c

CallRecord(op, arg, incoming) == [op |-> op, arg |-> arg, incoming |-> incoming]

\* dispatch( 'core/block-editor' ).updateSettings: no block state changes.
UpdateSettingsDispatch(c, heard) ==
    Notify([c EXCEPT !.calls = Append(@, CallRecord("updateSettings", Null, c.inc))],
           heard, FALSE)

\* dispatch( 'core/block-editor' ).resetBlocks: the store's block tree becomes
\* `value`; the flags of the last block change are whatever the store's
\* reducers make of the reset: persistent p, ignored i.
ResetBlocksDispatch(c, value, p, i) ==
    Notify([c EXCEPT !.store = [blocks |-> value, isPersistent |-> p,
                                controlled |-> c.store.controlled],
                     !.calls = Append(@, CallRecord("resetBlocks", value, c.inc))],
           TRUE, i)

\* dispatch( 'core/block-editor' ).resetSelection: no block state changes.
ResetSelectionDispatch(c) ==
    Notify([c EXCEPT !.calls = Append(@, CallRecord("resetSelection", Null, c.inc))],
           TRUE, FALSE)

\* The disposer registry.subscribe returned: releases the subscription once.
Release(c) ==
    IF c.unsubscribe = "unset" THEN c
    ELSE [c EXCEPT !.listeners = IF c.unsubscribe = "live" THEN @ - 1 ELSE @,
                   !.unsubscribe = "released"]

\* -------------------------------------------------------------- component
\* attachChangeObserver: release the previous subscription, read the baseline
\* from the store, subscribe.
\* Mutant of AttachChangeObserver: the previous subscription is not released.
AttachChangeObserverKeepsPrevious(c) ==
    [c EXCEPT !.blocks = c.store.blocks,
              !.isPersistent = c.store.isPersistent,
              !.prev = FALSE,
              !.listeners = @ + 1,
              !.unsubscribe = "live",
              !.calls = Append(@, CallRecord("subscribe", Null, c.inc))]

\* Mutant of AttachChangeObserver: previousAreBlocksDifferent survives the
\* re-attachment.
AttachChangeObserverKeepsHistory(c) ==
    LET d == Release(c)
    IN  [d EXCEPT !.blocks = d.store.blocks,
                  !.isPersistent = d.store.isPersistent,
                  !.listeners = @ + 1,
                  !.unsubscribe = "live",
                  !.calls = Append(@, CallRecord("subscribe", Null, d.inc))]

AttachChangeObserver(c) ==
    LET d == Release(c)
    IN  [d EXCEPT !.blocks = d.store.blocks,
                  !.isPersistent = d.store.isPersistent,
                  !.prev = FALSE,
                  !.listeners = @ + 1,
                  !.unsubscribe = "live",
                  !.calls = Append(@, CallRecord("subscribe", Null, d.inc))]

\* The instance, closure and store state the handlers work on.
Ctx ==
    [store |-> store, out |-> isSyncingOutcomingValue, inc |-> isSyncingIncomingValue,
     blocks |-> blocks, isPersistent |-> isPersistent,
     prev |-> previousAreBlocksDifferent, unsubscribe |-> unsubscribe,
     listeners |-> listeners, runs |-> <<>>, calls |-> <<>>]

Commit(c, name) ==
    /\ store' = c.store
    /\ isSyncingOutcomingValue' = c.out
    /\ isSyncingIncomingValue' = c.inc
    /\ blocks' = c.blocks
    /\ isPersistent' = c.isPersistent
    /\ previousAreBlocksDifferent' = c.prev
    /\ unsubscribe' = c.unsubscribe
    /\ listeners' = c.listeners
    /\ runs' = c.runs
    /\ calls' = c.calls
    /\ act' = name

\* componentDidMount, statement by statement.
MountSettings(c) == UpdateSettingsDispatch(c, TRUE)
MountReset(c, p, i) == ResetBlocksDispatch(c, props.value, p, i)
MountQueue(c) == [c EXCEPT !.out = <<>>]

\* Mutant of ComponentDidMount: the observer is attached before the reset.
ComponentDidMountAttachFirst(c, p, i) ==
    MountQueue(MountReset(AttachChangeObserver(MountSettings(c)), p, i))

ComponentDidMount(c, p, i) ==
    MountQueue(AttachChangeObserver(MountReset(MountSettings(c), p, i)))

\* componentDidUpdate: the value branch.
IsEcho(q, value) == Includes(q, value)

\* Mutant of QueueAfterEcho: any recognised echo empties the queue.
QueueAfterEchoAlwaysCleared(q, value) == <<>>

QueueAfterEcho(q, value) == IF Last(q) = value THEN <<>> ELSE q

IsGenuineChange(value, prevValue) == value # prevValue

\* Mutant of ShouldResetSelection: one end of the selection is enough.
ShouldResetSelectionEither(selectionStart, selectionEnd) ==
    selectionStart \/ selectionEnd

ShouldResetSelection(selectionStart, selectionEnd) == selectionStart /\ selectionEnd

\* Mutant of InboundReset: the outbound queue is not emptied.
InboundResetKeepsQueue(c, value, p, i, selectionStart, selectionEnd) ==
    LET armed == [c EXCEPT !.inc = value]
        reset == ResetBlocksDispatch(armed, value, p, i)
    IN  IF selectionStart /\ selectionEnd
        THEN ResetSelectionDispatch(reset)
        ELSE reset

InboundReset(c, value, p, i, selectionStart, selectionEnd) ==
    LET armed == [c EXCEPT !.out = <<>>, !.inc = value]
        reset == ResetBlocksDispatch(armed, value, p, i)
    IN  IF ShouldResetSelection(selectionStart, selectionEnd)
        THEN ResetSelectionDispatch(reset)
        ELSE reset

SyncValue(c, value, prevValue, p, i, selectionStart, selectionEnd) ==
    IF IsEcho(c.out, value)
    THEN [c EXCEPT !.out = QueueAfterEcho(@, value)]
    ELSE IF IsGenuineChange(value, prevValue)
    THEN InboundReset(c, value, p, i, selectionStart, selectionEnd)
    ELSE c

\* componentDidUpdate( prevProps ) with the new props np; prevProps is props.
\* settingsChanged is settings !== prevProps.settings, registryChanged
\* is registry !== prevProps.registry.  The dispatchers of the new props go to
\* the store of the new registry, whose state is ns (the old store's state
\* when the registry is the same); until the observer is re-attached the
\* listener still hangs on the old registry and does not hear them.
ComponentDidUpdate(c, np, settingsChanged, registryChanged, ns, p, i) ==
    LET onNew == [c EXCEPT !.store = ns]
        c1 == IF settingsChanged
              THEN UpdateSettingsDispatch(onNew, ~registryChanged)
              ELSE onNew
        c2 == IF registryChanged THEN AttachChangeObserver(c1) ELSE c1
    IN  SyncValue(c2, np.value, props.value, p, i, np.selectionStart, np.selectionEnd)

\* Mutant of ComponentWillUnmount: the subscription is not released.
ComponentWillUnmountKeepsListener(c) == c

\* componentWillUnmount.
ComponentWillUnmount(c) == Release(c)

\* ---------------------------------------------------------------- actions
PropsSet == [value : Refs, selectionStart : BOOLEAN, selectionEnd : BOOLEAN]

\* What __unstableIsLastBlockChangeIgnored() returns during the notification of
\* a resetBlocks of this component.  The listener does not consult it there:
\* at mount no listener is subscribed yet, and in componentDidUpdate the marker
\* is truthy, which short-circuits the call.
ResetIgnored == FALSE

\* The store a newly supplied registry brings: any block tree and persistence
\* flag; inner blocks become controlled by its later dispatches.
NewStoreStates == [blocks : Refs, isPersistent : BOOLEAN, controlled : {FALSE}]

Init ==
    /\ phase = "constructed"
    /\ props \in {np \in PropsSet : np.selectionStart /\ np.selectionEnd}
    /\ store \in StoreStates
    /\ isSyncingOutcomingValue = Undefined
    /\ isSyncingIncomingValue = Null
    /\ unsubscribe = "unset"
    /\ listeners = 0
    /\ blocks = Null
    /\ isPersistent = FALSE
    /\ previousAreBlocksDifferent = FALSE
    /\ act = "init"
    /\ runs = <<>>
    /\ calls = <<>>

Mount ==
    /\ phase = "constructed"
    /\ \E p \in BOOLEAN :
          Commit(ComponentDidMount(Ctx, p, ResetIgnored), "mount")
    /\ phase' = "mounted"
    /\ UNCHANGED props

\* Whether componentDidUpdate with this value reaches resetBlocks (only then
\* does the outcome p of the reset matter).
Resets(value) ==
    ~IsEcho(isSyncingOutcomingValue, value) /\ IsGenuineChange(value, props.value)

\* The props a re-render can bring.  selectionStart and selectionEnd are read
\* only next to resetBlocks; the updates that do not get there are explored
\* with both present.
UpdateProps ==
    {np \in PropsSet :
        Resets(np.value) \/ (np.selectionStart /\ np.selectionEnd)}

\* A re-render of the host: any new props.
Update ==
    /\ phase = "mounted"
    /\ \E np \in UpdateProps, settingsChanged \in BOOLEAN, registryChanged \in BOOLEAN :
       \E ns \in (IF registryChanged THEN NewStoreStates ELSE {store}) :
       \E p \in (IF Resets(np.value) THEN BOOLEAN ELSE {FALSE}) :
       \E c \in {ComponentDidUpdate(Ctx, np, settingsChanged, registryChanged,
                                   ns, p, ResetIgnored)} :
               /\ Len(c.out) <= MaxQueue
               /\ Commit(c, "update")
               /\ props' = np
    /\ UNCHANGED phase

\* Any dispatch on the store by the editor or another actor, followed by the
\* store's synchronous notification.
StoreChange ==
    /\ phase # "constructed"
    /\ \E ns \in StoreStates, ignored \in BOOLEAN :
          \E c \in {Notify([Ctx EXCEPT !.store = ns], TRUE, ignored)} :
              /\ Len(c.out) <= MaxQueue
              /\ Commit(c, "store")
    /\ UNCHANGED <<phase, props>>

\* componentWillUnmount; the guard on this.unsubscribe covers an instance that
\* is torn down before componentDidMount attached an observer.
Unmount ==
    /\ phase \in {"constructed", "mounted"}
    /\ Commit(ComponentWillUnmount(Ctx), "unmount")
    /\ phase' = "unmounted"
    /\ UNCHANGED props

Next == Mount \/ Update \/ StoreChange \/ Unmount

Spec == Init /\ [][Next]_vars

\* ------------------------------------------- a host with its own references
\* The same component in a plainer environment and with more room: the
\* settings and the registry never change, the host always supplies a
\* selection and no change is flagged as ignored; the queue can hold MaxLag
\* emissions while the host lags behind, and the host and the store draw
\* their block trees from NumHostRefs references.
MaxLag == 3
NumHostRefs == 3
HostRefs == 1..NumHostRefs

HostInit ==
    /\ phase = "constructed"
    /\ props \in [value : HostRefs, selectionStart : {TRUE}, selectionEnd : {TRUE}]
    /\ store \in [blocks : HostRefs, isPersistent : BOOLEAN, controlled : BOOLEAN]
    /\ isSyncingOutcomingValue = Undefined
    /\ isSyncingIncomingValue = Null
    /\ unsubscribe = "unset"
    /\ listeners = 0
    /\ blocks = Null
    /\ isPersistent = FALSE
    /\ previousAreBlocksDifferent = FALSE
    /\ act = "init"
    /\ runs = <<>>
    /\ calls = <<>>

HostUpdate ==
    /\ phase = "mounted"
    /\ \E value \in HostRefs :
       \E p \in (IF Resets(value) THEN BOOLEAN ELSE {FALSE}) :
       \E np \in {[value |-> value, selectionStart |-> TRUE, selectionEnd |-> TRUE]} :
       \E c \in {ComponentDidUpdate(Ctx, np, FALSE, FALSE, store, p, ResetIgnored)} :
               /\ Len(c.out) <= MaxLag
               /\ Commit(c, "update")
               /\ props' = np
    /\ UNCHANGED phase

HostStoreChange ==
    /\ phase = "mounted"
    /\ \E ns \in [blocks : HostRefs, isPersistent : BOOLEAN, controlled : BOOLEAN] :
       \E c \in {Notify([Ctx EXCEPT !.store = ns], TRUE, FALSE)} :
               /\ Len(c.out) <= MaxLag
               /\ Commit(c, "store")
    /\ UNCHANGED <<phase, props>>

HostNext == Mount \/ HostUpdate \/ HostStoreChange

HostSpec == HostInit /\ [][HostNext]_vars

\* ------------------------------------------------------------- properties
NumCalls(cs, op) == Cardinality({k \in 1..Len(cs) : cs[k].op = op})
Emitted(rs) == {k \in 1..Len(rs) : rs[k].emit # "none"}
ComponentState ==
    <<isSyncingOutcomingValue, isSyncingIncomingValue, blocks, isPersistent,
      previousAreBlocksDifferent>>

\* C1 (as claimed): when the last handler emitted onChange(V) or onInput(V)
\* and the next step is a host update supplying V, that update calls no
\* resetBlocks and emits nothing.
C1_NoEcho ==
    [][ ( /\ act' = "update"
          /\ \E k \in Emitted(runs) : runs[k].arg = props'.value )
        => ( NumCalls(calls', "resetBlocks") = 0 /\ Emitted(runs') = {} ) ]_vars

\* C2: a host update whose value differs from the previous value and from
\* every queue entry calls resetBlocks(value) exactly once, with the marker
\* already set to value at the call, and leaves the queue empty.
C2_GenuineChange ==
    [][ ( /\ act' = "update"
          /\ props'.value # props.value
          /\ ~Includes(isSyncingOutcomingValue, props'.value) )
        => ( /\ NumCalls(calls', "resetBlocks") = 1
             /\ \A k \in 1..Len(calls') :
                   calls'[k].op = "resetBlocks" =>
                       /\ calls'[k].arg = props'.value
                       /\ calls'[k].incoming = props'.value
             /\ isSyncingOutcomingValue' = <<>> ) ]_vars

\* C2 witness: an update has just reset the store to the new value, the
\* listener saw the reset arrive, and the queue is empty.
C2_Witness ==
    /\ act = "update"
    /\ NumCalls(calls, "resetBlocks") = 1
    /\ \E k \in 1..Len(runs) : runs[k].branch = "suppressed"
    /\ store.blocks = props.value
    /\ isSyncingOutcomingValue = <<>>

\* C3 (as claimed): the store notification that follows an inbound reset
\* without changing the block tree emits nothing that carries the value the
\* host has just installed.
C3_ResetNotEchoed ==
    [][ ( /\ act = "update"
          /\ NumCalls(calls, "resetBlocks") = 1
          /\ act' = "store"
          /\ store'.blocks = store.blocks )
        => \A k \in Emitted(runs') : runs'[k].arg # props.value ]_vars

\* C4: a notification that finds the blocks different and emits, emits
\* onChange exactly when isLastBlockChangePersistent() is true during it, and
\* onInput otherwise.
C4_Classification ==
    \A k \in Emitted(runs) :
        runs[k].areBlocksDifferent =>
            /\ runs[k].emit \in {"onChange", "onInput"}
            /\ (runs[k].emit = "onChange") <=> runs[k].newIsPersistent
            /\ (act = "store" => runs[k].newIsPersistent = store.isPersistent)

\* C4 witness: a store notification found the blocks different while the
\* change was not persistent, and emitted onInput.
C4_Witness ==
    /\ act = "store"
    /\ \E k \in Emitted(runs) :
          /\ runs[k].areBlocksDifferent
          /\ runs[k].emit = "onInput"
          /\ ~store.isPersistent

\* C5: after a notification that found the blocks different with the flag
\* false and emitted onInput(V), a next notification with the same blocks and
\* the flag true emits exactly one onChange(V), no onInput, and pushes nothing.
C5_PersistencePromotion ==
    [][ ( /\ act = "store"
          /\ Len(runs) = 1
          /\ runs[1].areBlocksDifferent
          /\ runs[1].emit = "onInput"
          /\ act' = "store"
          /\ store'.blocks = store.blocks
          /\ store'.isPersistent )
        => ( /\ Len(runs') = 1
             /\ runs'[1].emit = "onChange"
             /\ runs'[1].arg = runs[1].arg
             /\ isSyncingOutcomingValue' = isSyncingOutcomingValue ) ]_vars

\* C5 witness: a persistence-only notification has emitted onChange with the
\* unchanged blocks.
C5_Witness ==
    /\ act = "store"
    /\ Len(runs) = 1
    /\ ~runs[1].areBlocksDifferent
    /\ runs[1].emit = "onChange"
    /\ runs[1].arg = blocks
    /\ ~runs[1].pushed

\* C6: a notification whose blocks and persistence flag equal the observer's
\* snapshot emits nothing and changes nothing but previousAreBlocksDifferent,
\* which becomes false.
C6_NoOpNotification ==
    [][ ( /\ act' = "store"
          /\ listeners > 0
          /\ store'.blocks = blocks
          /\ store'.isPersistent = isPersistent )
        => ( /\ Emitted(runs') = {}
             /\ blocks' = blocks
             /\ isPersistent' = isPersistent
             /\ isSyncingOutcomingValue' = isSyncingOutcomingValue
             /\ isSyncingIncomingValue' = isSyncingIncomingValue
             /\ previousAreBlocksDifferent' = FALSE ) ]_vars

\* C6 witness: the listener ran on a store equal to its snapshot, while the
\* previous notification had found the blocks different.
C6_Witness ==
    /\ act = "store"
    /\ Len(runs) = 1
    /\ runs[1].branch = "idle"
    /\ store.blocks = blocks
    /\ store.isPersistent = isPersistent
    /\ isPersistent
    /\ isSyncingOutcomingValue # <<>>

\* C7: a host update whose value is in the queue empties the queue when the
\* value is the last entry and leaves the queue as it was otherwise; it calls
\* neither resetBlocks nor resetSelection and leaves the marker alone.
C7_EchoRecognition ==
    [][ ( /\ act' = "update"
          /\ Includes(isSyncingOutcomingValue, props'.value) )
        => ( /\ isSyncingOutcomingValue' =
                   IF Last(isSyncingOutcomingValue) = props'.value
                   THEN <<>> ELSE isSyncingOutcomingValue
             /\ NumCalls(calls', "resetBlocks") = 0
             /\ NumCalls(calls', "resetSelection") = 0
             /\ isSyncingIncomingValue' = isSyncingIncomingValue ) ]_vars

\* C7 witness: an update supplied an older entry of the queue, which is still
\* in the queue.
C7_Witness ==
    /\ act = "update"
    /\ Includes(isSyncingOutcomingValue, props.value)
    /\ Last(isSyncingOutcomingValue) # props.value
    /\ NumCalls(calls, "resetBlocks") = 0

\* C8: resetSelection is called only by an update that also calls resetBlocks
\* and has both selectionStart and selectionEnd; an update that resets with
\* one or none of them calls resetBlocks and no resetSelection.
C8_SelectionForwarding ==
    /\ NumCalls(calls, "resetSelection") <= 1
    /\ NumCalls(calls, "resetSelection") = 1 <=>
          ( /\ act = "update"
            /\ NumCalls(calls, "resetBlocks") = 1
            /\ props.selectionStart
            /\ props.selectionEnd )

\* C8 witness: an update reset the blocks with exactly one end of the
\* selection present, and did not call resetSelection.
C8_Witness ==
    /\ act = "update"
    /\ NumCalls(calls, "resetBlocks") = 1
    /\ props.selectionStart # props.selectionEnd
    /\ NumCalls(calls, "resetSelection") = 0

\* C9: once unmounted, no store notification runs the listener or changes
\* the queue, the marker or the snapshot; unmounting an instance that never
\* attached an observer changes nothing of it.
C9_Deactivation ==
    [][ /\ phase = "unmounted" =>
             ( runs' = <<>> /\ listeners' = 0 /\ UNCHANGED ComponentState )
        /\ (act' = "unmount" /\ unsubscribe = "unset") =>
             ( UNCHANGED ComponentState /\ UNCHANGED <<unsubscribe, listeners>> )
        /\ act' = "unmount" => listeners' = 0 ]_vars

\* C9 witness: after an unmount that released a live observer, the store has
\* moved away from the observer's snapshot.
C9_Witness ==
    /\ phase = "unmounted"
    /\ unsubscribe = "released"
    /\ act = "store"
    /\ store.blocks # blocks
    /\ previousAreBlocksDifferent
    /\ ~isPersistent
    /\ store.isPersistent

\* C10: when componentDidMount has completed it has called updateSettings,
\* then resetBlocks(value), then subscribed one observer whose snapshot is the
\* store's blocks after the reset; the queue is empty and nothing was emitted.
C10_Activation ==
    act = "mount" =>
        /\ Len(calls) = 3
        /\ calls[1].op = "updateSettings"
        /\ calls[2].op = "resetBlocks" /\ calls[2].arg = props.value
        /\ calls[3].op = "subscribe"
        /\ listeners = 1
        /\ unsubscribe = "live"
        /\ store.blocks = props.value
        /\ blocks = store.blocks
        /\ isPersistent = store.isPersistent
        /\ isSyncingOutcomingValue = <<>>
        /\ runs = <<>>

\* C10 witness: a mount has completed on a store whose blocks were not the
\* host's value before.
C10_Witness ==
    /\ act = "mount"
    /\ phase = "mounted"
    /\ listeners = 1
    /\ blocks = props.value
    /\ ~isPersistent

\* C11 (as claimed): a store notification that finds the blocks different,
\* is not the notification of a resetBlocks of this component and is not
\* flagged as ignored, emits exactly once, with the store's new blocks.
C11_NoLostEdits ==
    [][ ( /\ act' = "store"
          /\ Len(runs') = 1
          /\ runs'[1].areBlocksDifferent
          /\ ~runs'[1].ignored )
        => ( /\ runs'[1].emit \in {"onChange", "onInput"}
             /\ runs'[1].arg = store'.blocks ) ]_vars

\* C12 (as claimed): a store notification that runs while the marker is armed
\* clears it, whether or not it finds the blocks different; so no handler in
\* which the listener ran ends with the marker armed.
C12_MarkerLifecycle ==
    runs # <<>> => isSyncingIncomingValue = Null

\* C13 (as claimed): after every notification the listener handled,
\* previousAreBlocksDifferent equals the areBlocksDifferent computed in it,
\* whichever branch it took.
C13_PreviousFlag ==
    runs # <<>> => previousAreBlocksDifferent = runs[Len(runs)].areBlocksDifferent

\* C14 (as claimed): a host update whose value matches an entry of the queue
\* leaves the queue without that entry.
C14_QueueTrimming ==
    [][ ( /\ act' = "update"
          /\ Includes(isSyncingOutcomingValue, props'.value) )
        => ~Includes(isSyncingOutcomingValue', props'.value) ]_vars

\* C15: whenever the listener has just run, its snapshot of the blocks is
\* consistent with the store's current block tree: the same reference when no
\* inner blocks are controlled, shallow-equal otherwise.
C15_SnapshotConsistency ==
    runs # <<>> =>
        IF store.controlled THEN isShallowEqual(store.blocks, blocks)
        ELSE store.blocks = blocks

\* C15 witness: with controlled inner blocks the store moved to another
\* reference with the same elements; the listener found nothing different
\* and kept its snapshot.
C15_Witness ==
    /\ act = "store"
    /\ Len(runs) = 1
    /\ runs[1].branch = "idle"
    /\ store.controlled
    /\ store.blocks # blocks

\* C16: at most one subscription of this component is live at any time, the
\* one this.unsubscribe releases; a store notification runs the listener at
\* most once and yields at most one emission.
C16_SingleObserver ==
    /\ listeners <= 1
    /\ listeners = 1 <=> unsubscribe = "live"
    /\ act = "store" =>
          /\ Len(runs) <= listeners
          /\ Cardinality(Emitted(runs)) <= 1

\* C16 witness: an update re-attached the observer on a new registry while a
\* subscription was live, and one subscription is live afterwards.
C16_Witness ==
    /\ act = "update"
    /\ NumCalls(calls, "subscribe") = 1
    /\ listeners = 1
    /\ unsubscribe = "live"

C18_NoFeedbackLoop ==
    [][ /\ act' = "store" => Cardinality(Emitted(runs')) <= 1
        /\ ( /\ act = "store"
             /\ Emitted(runs) # {}
             /\ act' = "update"
             /\ \/ props'.value = runs[1].arg
                \/ /\ props'.value # props.value
                   /\ props'.value # store.blocks
                   /\ ~Includes(isSyncingOutcomingValue, props'.value) )
           => ( /\ Emitted(runs') = {}
                /\ NumCalls(calls', "resetBlocks") <= 1 )
        /\ ( act' = "update" /\ props'.value = props.value )
           => ( /\ Emitted(runs') = {}
                /\ NumCalls(calls', "resetBlocks") = 0 ) ]_vars

\* C19 (as claimed): when the host supplies the oldest entry of a queue that
\* holds later emissions, the update calls no resetBlocks, and the next
\* emission in order is still taken for an echo afterwards: it is in the
\* queue, or it is the value just supplied; this also when a reference
\* occurs more than once in the queue.
C19_LaggingEchoes ==
    [][ ( /\ act' = "update"
          /\ isSyncingOutcomingValue # Undefined
          /\ Len(isSyncingOutcomingValue) >= 2
          /\ props'.value = isSyncingOutcomingValue[1] )
        => ( /\ NumCalls(calls', "resetBlocks") = 0
             /\ \/ Includes(isSyncingOutcomingValue', isSyncingOutcomingValue[2])
                \/ isSyncingOutcomingValue[2] = props'.value ) ]_vars

\* C20: the queue gains an entry only in a store notification that found the
\* blocks different and emitted, and the entry is the block tree handed to
\* onChange or onInput by that notification; suppressed and persistence-only
\* notifications push nothing, and mount, host updates and unmount only keep
\* or empty the queue.
C20_QueueProvenance ==
    [][ /\ \A k \in 1..Len(runs') :
              runs'[k].pushed =>
                  /\ runs'[k].branch = "emitted"
                  /\ runs'[k].areBlocksDifferent
                  /\ runs'[k].emit \in {"onChange", "onInput"}
                  /\ runs'[k].arg \in Refs
        /\ act' = "store" =>
              \/ isSyncingOutcomingValue' = isSyncingOutcomingValue
              \/ /\ Len(runs') = 1
                 /\ runs'[1].pushed
                 /\ isSyncingOutcomingValue' =
                       Append(isSyncingOutcomingValue, runs'[1].arg)
        /\ act' \in {"mount", "update", "unmount"} =>
              isSyncingOutcomingValue' \in {<<>>, isSyncingOutcomingValue} ]_vars

\* C20 witness: a store notification has pushed the blocks it emitted behind
\* an entry that was already pending.
C20_Witness ==
    /\ act = "store"
    /\ Len(runs) = 1
    /\ runs[1].pushed
    /\ runs[1].emit = "onChange"
    /\ Len(isSyncingOutcomingValue) = 2
    /\ Last(isSyncingOutcomingValue) = runs[1].arg

====
